---- MODULE Spec2Model ----
(***************************************************************************)
(* Wallet ledger of the spendo finance tracker: wallets, expenses, incomes *)
(* and wallet-to-wallet transfers, with the service calls that create,     *)
(* update and delete them.  The persisted tables are the state; every      *)
(* service call is one action, run inside its transaction.atomic block:    *)
(* an exception restores the tables to their value before the call.        *)
(*                                                                         *)
(* Model instances are values: a Wallet instance is a record holding the   *)
(* row's uid and the balance the instance has in memory; Wallet.save       *)
(* writes that in-memory balance to the row.  A balance changed on an      *)
(* instance that is never saved is not persisted.                          *)
(*                                                                         *)
(* Amounts are whole currency units.                                       *)
(***************************************************************************)
EXTENDS Integers, FiniteSets, Sequences, TLC

\* ---------------------------------------------------------------- bounds
MaxCalls == 2        \* service calls in one behaviour of Spec (every service)
MaxOps == 3          \* service calls in one behaviour of SpecTransfer (transfers only)
MaxMoves == 3        \* deposit and withdraw calls in one behaviour of SpecWallet
MaxRows == 1         \* rows the expense table and the income table each start with in SpecRecords
MaxDeletes == 2      \* service calls in one behaviour of SpecRecords
MaxRecords == 3      \* records in the three tables together in SpecFeed
MaxTries == 1        \* service calls in one behaviour of SpecExpense and of SpecCall
MaxRequests == 2    \* create_transfer requests that run concurrently in SpecRace

\* ------------------------------------------------------ program constants
max_digits == 10     \* DecimalField(max_digits=10, ...)
decimal_places == 2  \* DecimalField(..., decimal_places=2)

\* ----------------------------------------------------------- input sets
Users == {"u1", "u2"}
WalletIds == {"w1", "w2", "w3"}
WalletOwner == [w \in WalletIds |-> IF w = "w3" THEN "u2" ELSE "u1"]
InitBalance == [w \in WalletIds |-> CASE w = "w1" -> 100 [] w = "w2" -> 50 [] OTHER -> 0]
CategoryIds == {"c1", "c2"}
CategoryOwner == [c \in CategoryIds |-> IF c = "c1" THEN "u1" ELSE "u2"]

NULL == "NULL"       \* Python None / SQL NULL for a reference
OK == "ok"

\* the smallest whole amount a DecimalField(max_digits, decimal_places) rejects
TooManyDigits == 10 ^ (max_digits - decimal_places)
Amounts == {0, 20, 30, TooManyDigits}
\* ... and a negative amount, for the calls that create a record, for
\* update_transfer, and for deposit and withdraw
SignedAmounts == Amounts \cup {-30}
Descriptions == {"", "rent"}
Balances == {0, TooManyDigits}

\* an optional argument: <<>> is None, <<x>> is the value x
None == <<>>
Some(x) == <<x>>
Opt(S) == {None} \cup {Some(x) : x \in S}

VARIABLES
    wallet,      \* table user_wallet: live wallet uid -> balance
    expense,     \* table expenses: pk -> [user, wallet, amount, category]
    income,      \* table income: pk -> [user, wallet, amount, category]
    transfer,    \* table wallet_transfers: pk -> [user, source_wallet, destination_wallet, amount, description]
    seq,         \* primary keys handed out so far, per table
    last,        \* history: the last service call, its arguments and its outcome
    round,       \* history: the record created last and the balances before its creation
    admin,       \* history: TRUE once update_wallet or delete_wallet has succeeded
    budget,      \* environment: number of service calls still to be made
    held,        \* the Wallet instances a caller holds in memory: uid -> balance
    flow,        \* history: what deposit and withdraw were called with, summed per wallet
    feed,        \* the last get_transaction_list call: its arguments, queries and outcome
    request      \* the create_transfer requests in progress: what each was given and has loaded

vars == <<wallet, expense, income, transfer, seq, last, round, admin, budget, held, flow, feed,
         request>>

\* the database as one value, as the code inside a transaction sees it
DB == [wallet |-> wallet, expense |-> expense, income |-> income,
       transfer |-> transfer, seq |-> seq]

\* ------------------------------------------------------------- helpers
RECURSIVE SumOver(_, _)
SumOver(f, S) ==
    IF S = {} THEN 0
    ELSE LET x == CHOOSE y \in S : TRUE IN f[x] + SumOver(f, S \ {x})

\* DecimalValidator(max_digits, decimal_places) on a whole amount
DecimalValid(a) == a > -TooManyDigits /\ a < TooManyDigits

\* a Wallet instance: the row's uid and the balance held in memory
NoneObj == [uid |-> NULL, balance |-> 0]
WalletObj(db, w) == [uid |-> w, balance |-> db.wallet[w]]
\* following a nullable foreign key loads the row afresh
LoadWallet(db, w) == IF w = NULL THEN NoneObj ELSE WalletObj(db, w)

\* a wallet lookup by uid alone, whoever owns the wallet
get_wallet_from_uid(db, wallet_uid, user) ==
    IF wallet_uid \in DOMAIN db.wallet
    THEN WalletObj(db, wallet_uid)
    ELSE NoneObj

\* wallet/selectors.py get_wallet_from_uid_and_user: None when no row of this user has the uid
get_wallet_from_uid_and_user(db, wallet_uid, user) ==
    IF wallet_uid \in DOMAIN db.wallet /\ WalletOwner[wallet_uid] = user
    THEN WalletObj(db, wallet_uid)
    ELSE NoneObj

\* category lookup scoped by owner: TRUE when the user owns a category with this uid
category_found(category_uid, user) ==
    category_uid \in CategoryIds /\ CategoryOwner[category_uid] = user

\* ------------------------------------------------------ wallet/models.py
\* Model.save on a Wallet instance: UPDATE of the row with the in-memory balance
Wallet_save(db, self) == [db EXCEPT !.wallet[self.uid] = self.balance]

\* Wallet.deposit without the save: the new balance stays in memory
Wallet_deposit_NoSave(db, self, amount) ==
    LET s == [self EXCEPT !.balance = @ + amount]
    IN [db |-> db, self |-> s]

\* Wallet.deposit: balance += amount; save
Wallet_deposit(db, self, amount) ==
    LET s == [self EXCEPT !.balance = @ + amount]
    IN [db |-> Wallet_save(db, s), self |-> s]

\* Wallet.withdraw without the save: the new balance stays in memory
Wallet_withdraw_NoSave(db, self, amount) ==
    LET s == [self EXCEPT !.balance = @ - amount]
    IN [db |-> db, self |-> s]

\* Wallet.withdraw: balance -= amount; save
Wallet_withdraw(db, self, amount) ==
    LET s == [self EXCEPT !.balance = @ - amount]
    IN [db |-> Wallet_save(db, s), self |-> s]

\* Wallet.transfer_balance without the deposit on the receiving wallet
Wallet_transfer_balance_NoDeposit(db, self, to_wallet, amount) ==
    LET w == Wallet_withdraw(db, self, amount)
    IN [db |-> w.db, self |-> w.self, to_wallet |-> to_wallet]

\* Wallet.transfer_balance: self.withdraw(amount); to_wallet.deposit(amount)
Wallet_transfer_balance(db, self, to_wallet, amount) ==
    LET w == Wallet_withdraw(db, self, amount)
        d == Wallet_deposit(w.db, to_wallet, amount)
    IN [db |-> d.db, self |-> w.self, to_wallet |-> d.self]

\* a service without transaction.atomic: what was written before the exception stays
Atomic_NoRollback(db, r) == r.db

\* transaction.atomic: an exception leaves the database as it was
Atomic(db, r) == IF r.err = OK THEN r.db ELSE db

\* ----------------------------------------------------- expense/models.py
\* An Expense instance: pk = 0 until the row is inserted; wallet is the
\* Wallet instance cached on the foreign key (NoneObj for None).

\* Model.clean_fields: amount is a DecimalField(10, 2); wallet is null=True
\* without blank=True, so a None wallet is rejected as blank
Expense_clean_fields(self) == DecimalValid(self.amount) /\ self.wallet.uid # NULL

\* Expense.clean
Expense_clean(db, self) ==
    IF self.pk # 0
    THEN \* existing instance
         LET previous == db.expense[self.pk]
             previous_wallet == LoadWallet(db, previous.wallet)
             moved == previous_wallet.uid # NULL /\ previous_wallet.uid # self.wallet.uid
             reverted == [previous_wallet EXCEPT !.balance = @ + previous.amount]
             db1 == IF moved THEN Wallet_save(db, reverted) ELSE db
             db2 == IF moved THEN Wallet_save(db1, reverted) ELSE db1
         IN IF previous_wallet.uid = self.wallet.uid
            THEN IF self.wallet.uid = NULL
                 THEN [db |-> db1, self |-> self, err |-> "AttributeError"]
                 ELSE [db |-> db2,
                       self |-> [self EXCEPT !.wallet.balance = @ - (self.amount - previous.amount)],
                       err |-> OK]
            ELSE [db |-> db2,
                  self |-> IF self.wallet.uid # NULL
                           THEN [self EXCEPT !.wallet.balance = @ - self.amount]
                           ELSE self,
                  err |-> OK]
    ELSE \* new instance
         IF self.wallet.uid # NULL
         THEN LET w == [self.wallet EXCEPT !.balance = @ - self.amount]
              IN [db |-> Wallet_save(db, w), self |-> [self EXCEPT !.wallet = w], err |-> OK]
         ELSE [db |-> db, self |-> self, err |-> OK]

\* Model.full_clean: clean_fields, then clean even when clean_fields failed,
\* then ValidationError if anything was collected; another exception raised
\* by clean propagates as it is
Expense_full_clean(db, self) ==
    LET c == Expense_clean(db, self)
    IN IF c.err # OK THEN c
       ELSE IF ~Expense_clean_fields(self) THEN [c EXCEPT !.err = "ValidationError"]
       ELSE c

\* the row an instance is written as
ExpenseRow(self) ==
    [user |-> self.user, wallet |-> self.wallet.uid, amount |-> self.amount,
     category |-> self.category]

\* Model.save of the base class: INSERT with a fresh pk, or UPDATE of the row
Expense_super_save(db, self) ==
    IF self.pk = 0
    THEN LET pk == db.seq.expense + 1
         IN [db |-> [db EXCEPT !.seq.expense = pk,
                               !.expense = [k \in DOMAIN db.expense \cup {pk} |->
                                             IF k = pk THEN ExpenseRow(self) ELSE db.expense[k]]],
             self |-> [self EXCEPT !.pk = pk], err |-> OK]
    ELSE [db |-> [db EXCEPT !.expense[self.pk] = ExpenseRow(self)], self |-> self, err |-> OK]

\* Expense.save: self.full_clean(); super().save()
Expense_save(db, self) ==
    LET fc == Expense_full_clean(db, self)
    IN IF fc.err # OK THEN fc ELSE Expense_super_save(fc.db, fc.self)

\* Expense.delete: if self.wallet: balance += amount; wallet.save(); then DELETE
Expense_delete(db, self) ==
    LET w == [self.wallet EXCEPT !.balance = @ + self.amount]
        db1 == IF self.wallet.uid # NULL THEN Wallet_save(db, w) ELSE db
    IN [db |-> [db1 EXCEPT !.expense = [k \in DOMAIN db1.expense \ {self.pk} |-> db1.expense[k]]],
        err |-> OK]

\* an instance fetched from its row; the wallet is loaded on first access
ExpenseInstance(db, pk) ==
    [pk |-> pk, user |-> db.expense[pk].user, amount |-> db.expense[pk].amount,
     category |-> db.expense[pk].category, wallet |-> LoadWallet(db, db.expense[pk].wallet)]

\* --------------------------------------------------- expense/services.py
\* except DjangoValidationError as e: raise DjangoValidationError(message=e.messages)
ReraiseDjango(r) == IF r.err = "ValidationError" THEN [r EXCEPT !.err = "DjangoValidationError"] ELSE r

\* what a service call leaves: the database it wrote, and OK or the exception it raised
Result(db, e) == [db |-> db, err |-> e]

create_user_expense(db, amount, category, wallet_uid, user) ==
    IF category # NULL /\ ~category_found(category, user)
    THEN Result(db, "DRFValidationError")
    ELSE LET wallet_instance == get_wallet_from_uid_and_user(db, wallet_uid, user)
         IN IF wallet_instance.uid = NULL
            THEN Result(db, "DRFValidationError")
            ELSE LET expense_instance == [pk |-> 0, user |-> user, amount |-> amount,
                                          category |-> category, wallet |-> wallet_instance]
                     fc == Expense_full_clean(db, expense_instance)
                 IN IF fc.err # OK
                    THEN Result(fc.db, ReraiseDjango(fc).err)
                    ELSE LET sv == Expense_save(fc.db, fc.self)
                         IN Result(sv.db, ReraiseDjango(sv).err)

\* expense/selectors.py get_expense_from_user_and_expense_uid: user.expense.get(uid=...)
expense_found(db, expense_uid, user) ==
    expense_uid \in DOMAIN db.expense /\ db.expense[expense_uid].user = user

update_user_expense(db, amount, category, wallet_uid, expense_uid, user) ==
    IF ~expense_found(db, expense_uid, user)
    THEN Result(db, "DjangoValidationError")
    ELSE IF category # NULL /\ ~category_found(category, user)
    THEN Result(db, "DRFValidationError")
    ELSE LET e0 == ExpenseInstance(db, expense_uid)
             e1 == IF category # NULL THEN [e0 EXCEPT !.category = category] ELSE e0
             \* "if amount:" is false for None and for zero
             e2 == IF amount # None /\ amount[1] # 0 THEN [e1 EXCEPT !.amount = amount[1]] ELSE e1
             wallet_instance == get_wallet_from_uid_and_user(db, wallet_uid, user)
         IN IF wallet_uid # NULL /\ wallet_instance.uid = NULL
            THEN Result(db, "DRFValidationError")
            ELSE LET e3 == IF wallet_uid # NULL THEN [e2 EXCEPT !.wallet = wallet_instance] ELSE e2
                     fc == Expense_full_clean(db, e3)
                 IN IF fc.err # OK
                    THEN Result(fc.db, ReraiseDjango(fc).err)
                    ELSE LET sv == Expense_save(fc.db, fc.self)
                         IN Result(sv.db, ReraiseDjango(sv).err)

delete_user_expense(db, expense_uid, user) ==
    IF ~expense_found(db, expense_uid, user)
    THEN Result(db, "DjangoValidationError")
    ELSE Expense_delete(db, ExpenseInstance(db, expense_uid))

\* ------------------------------------------------------ income/models.py
\* wallet is null=True without blank=True here too
Income_clean_fields(self) == DecimalValid(self.amount) /\ self.wallet.uid # NULL

\* Income.clean
Income_clean(db, self) ==
    IF self.pk # 0
    THEN \* existing instance
         LET previous == db.income[self.pk]
             previous_wallet == LoadWallet(db, previous.wallet)
             moved == previous_wallet.uid # NULL /\ previous_wallet.uid # self.wallet.uid
             reverted == [previous_wallet EXCEPT !.balance = @ - previous.amount]
             db1 == IF moved THEN Wallet_save(db, reverted) ELSE db
             db2 == IF moved THEN Wallet_save(db1, reverted) ELSE db1
         IN IF previous_wallet.uid = self.wallet.uid
            THEN IF self.wallet.uid = NULL
                 THEN [db |-> db1, self |-> self, err |-> "AttributeError"]
                 ELSE [db |-> db2,
                       self |-> [self EXCEPT !.wallet.balance = @ + (self.amount - previous.amount)],
                       err |-> OK]
            ELSE [db |-> db2,
                  self |-> IF self.wallet.uid # NULL
                           THEN [self EXCEPT !.wallet.balance = @ + self.amount]
                           ELSE self,
                  err |-> OK]
    ELSE \* new instance
         IF self.wallet.uid # NULL
         THEN LET w == [self.wallet EXCEPT !.balance = @ + self.amount]
              IN [db |-> Wallet_save(db, w), self |-> [self EXCEPT !.wallet = w], err |-> OK]
         ELSE [db |-> db, self |-> self, err |-> OK]

\* Model.full_clean on an Income
Income_full_clean(db, self) ==
    LET c == Income_clean(db, self)
    IN IF c.err # OK THEN c
       ELSE IF ~Income_clean_fields(self) THEN [c EXCEPT !.err = "ValidationError"]
       ELSE c

IncomeRow(self) ==
    [user |-> self.user, wallet |-> self.wallet.uid, amount |-> self.amount,
     category |-> self.category]

\* Income does not override save: Model.save writes the row, no full_clean
Income_save(db, self) ==
    IF self.pk = 0
    THEN LET pk == db.seq.income + 1
         IN [db |-> [db EXCEPT !.seq.income = pk,
                               !.income = [k \in DOMAIN db.income \cup {pk} |->
                                            IF k = pk THEN IncomeRow(self) ELSE db.income[k]]],
             self |-> [self EXCEPT !.pk = pk], err |-> OK]
    ELSE [db |-> [db EXCEPT !.income[self.pk] = IncomeRow(self)], self |-> self, err |-> OK]

\* Income.delete with the sign of Expense.delete
Income_delete_Deposits(db, self) ==
    LET w == [self.wallet EXCEPT !.balance = @ + self.amount]
        db1 == IF self.wallet.uid # NULL THEN Wallet_save(db, w) ELSE db
    IN [db |-> [db1 EXCEPT !.income = [k \in DOMAIN db1.income \ {self.pk} |-> db1.income[k]]],
        err |-> OK]

\* Income.delete: if self.wallet: balance -= amount; wallet.save(); then DELETE
Income_delete(db, self) ==
    LET w == [self.wallet EXCEPT !.balance = @ - self.amount]
        db1 == IF self.wallet.uid # NULL THEN Wallet_save(db, w) ELSE db
    IN [db |-> [db1 EXCEPT !.income = [k \in DOMAIN db1.income \ {self.pk} |-> db1.income[k]]],
        err |-> OK]

IncomeInstance(db, pk) ==
    [pk |-> pk, user |-> db.income[pk].user, amount |-> db.income[pk].amount,
     category |-> db.income[pk].category, wallet |-> LoadWallet(db, db.income[pk].wallet)]

\* ---------------------------------------------------- income/services.py
\* create_income has no wallet parameter: the instance is built without one.
\* except DjangoValidationError: raise DjangoValidationError(detail=...) is
\* itself a TypeError, ValidationError takes no keyword "detail"
create_income(db, amount, category_uid, user) ==
    IF category_uid # NULL /\ ~category_found(category_uid, user)
    THEN Result(db, "DRFValidationError")
    ELSE LET income_instance == [pk |-> 0, user |-> user, amount |-> amount,
                                 category |-> category_uid, wallet |-> NoneObj]
             fc == Income_full_clean(db, income_instance)
         IN IF fc.err = "ValidationError" THEN Result(fc.db, "TypeError")
            ELSE IF fc.err # OK THEN Result(fc.db, fc.err)
            ELSE Result(Income_save(fc.db, fc.self).db, OK)

\* income/selectors.py get_income_from_user_and_income_uid
income_found(db, income_uid, user) ==
    income_uid \in DOMAIN db.income /\ db.income[income_uid].user = user

\* update_income: amount is required and always assigned; the wallet is never changed
update_income(db, amount, category_uid, income_uid, user) ==
    IF ~income_found(db, income_uid, user)
    THEN Result(db, "DRFValidationError")
    ELSE IF category_uid # NULL /\ ~category_found(category_uid, user)
    THEN Result(db, "DRFValidationError")
    ELSE LET i0 == IncomeInstance(db, income_uid)
             i1 == IF category_uid # NULL THEN [i0 EXCEPT !.category = category_uid] ELSE i0
             i2 == [i1 EXCEPT !.amount = amount]
             fc == Income_full_clean(db, i2)
         IN IF fc.err # OK
            THEN Result(fc.db, ReraiseDjango(fc).err)
            ELSE Result(Income_save(fc.db, fc.self).db, OK)

delete_user_income(db, income_uid, user) ==
    IF ~income_found(db, income_uid, user)
    THEN Result(db, "DRFValidationError")
    ELSE Income_delete(db, IncomeInstance(db, income_uid))

\* income/views.py CreateIncomeAPIView.post: the serializer requires "wallet"
\* and the view passes every validated field on, create_income(**validated_data):
\* a keyword the service does not take is a TypeError before its body runs
CreateIncomeAPIView_post(db, amount, category, wallet_uid, user) ==
    LET validated_data == {"amount", "wallet"} \cup (IF category # NULL THEN {"category"} ELSE {})
        parameters == {"title", "amount", "date", "description", "category_uid", "user"}
    IN IF validated_data \subseteq parameters
       THEN create_income(db, amount, NULL, user)
       ELSE Result(db, "TypeError")

\* ---------------------------------------------------- wallet/services.py
\* description.strip() if description and description.strip() else None
StripOrNone(description) ==
    IF description = None \/ description[1] = "" THEN NULL ELSE description[1]

\* Model.clean_fields of a TransferTransaction: amount is a DecimalField(10, 2);
\* both wallet references are null=True without blank=True
Transfer_clean_fields(self) ==
    /\ DecimalValid(self.amount)
    /\ self.source_wallet.uid # NULL
    /\ self.destination_wallet.uid # NULL

TransferRow(self) ==
    [user |-> self.user, source_wallet |-> self.source_wallet.uid,
     destination_wallet |-> self.destination_wallet.uid,
     amount |-> self.amount, description |-> self.description]

\* Model.save of a TransferTransaction
Transfer_save(db, self) ==
    IF self.pk = 0
    THEN LET pk == db.seq.transfer + 1
         IN [db EXCEPT !.seq.transfer = pk,
                       !.transfer = [k \in DOMAIN db.transfer \cup {pk} |->
                                      IF k = pk THEN TransferRow(self) ELSE db.transfer[k]]]
    ELSE [db EXCEPT !.transfer[self.pk] = TransferRow(self)]

\* wallet/selectors.py get_transfer_detail: None when the user has no such transfer
transfer_found(db, transfer_uid, user) ==
    transfer_uid \in DOMAIN db.transfer /\ db.transfer[transfer_uid].user = user

TransferInstance(db, pk) ==
    [pk |-> pk, user |-> db.transfer[pk].user, amount |-> db.transfer[pk].amount,
     description |-> db.transfer[pk].description,
     source_wallet |-> LoadWallet(db, db.transfer[pk].source_wallet),
     destination_wallet |-> LoadWallet(db, db.transfer[pk].destination_wallet)]

\* identity ("is") instead of equality: two instances fetched by two queries
\* are never the same object
same_wallet_identity(a, b) == FALSE

\* Model.__eq__ on two Wallet instances: the same row
same_wallet(a, b) == a.uid = b.uid

\* the amount check that lets zero through
amount_negative(amount) == amount < 0

\* if amount <= 0: raise DRFValidationError("Transfer amount must be positive.")
amount_not_positive(amount) == amount <= 0

\* create_transfer once both wallets are loaded: the same-wallet check, the
\* transfer on the two instances, the record
create_transfer_loaded(db, source_wallet, destination_wallet, amount, description, user) ==
    IF same_wallet(source_wallet, destination_wallet) THEN Result(db, "DRFValidationError")
    ELSE LET tb == Wallet_transfer_balance(db, source_wallet, destination_wallet, amount)
             t == [pk |-> 0, user |-> user, amount |-> amount,
                   description |-> StripOrNone(description),
                   source_wallet |-> tb.self, destination_wallet |-> tb.to_wallet]
         IN IF ~Transfer_clean_fields(t)
            THEN Result(tb.db, "DjangoValidationError")
            ELSE Result(Transfer_save(tb.db, t), OK)

create_transfer(db, source_wallet_uid, destination_wallet_uid, amount, description, user) ==
    IF amount_not_positive(amount)
    THEN Result(db, "DRFValidationError")
    ELSE LET source_wallet == get_wallet_from_uid_and_user(db, source_wallet_uid, user)
             destination_wallet == get_wallet_from_uid_and_user(db, destination_wallet_uid, user)
         IN IF source_wallet.uid = NULL THEN Result(db, "DRFValidationError")
            ELSE IF destination_wallet.uid = NULL THEN Result(db, "DRFValidationError")
            ELSE create_transfer_loaded(db, source_wallet, destination_wallet, amount,
                                        description, user)

\* update_transfer without "reverse previous transfer"
update_transfer_NoReverse(db, transfer_uid, amount, description, user) ==
    IF amount # None /\ amount_not_positive(amount[1])
    THEN Result(db, "DRFValidationError")
    ELSE IF ~transfer_found(db, transfer_uid, user)
    THEN Result(db, "AttributeError")
    ELSE LET t0 == TransferInstance(db, transfer_uid)
             both == t0.destination_wallet.uid # NULL /\ t0.source_wallet.uid # NULL
             new == IF amount # None /\ both
                    THEN Wallet_transfer_balance(db, t0.source_wallet, t0.destination_wallet, amount[1])
                    ELSE [db |-> db, self |-> t0.source_wallet, to_wallet |-> t0.destination_wallet]
             t1 == [t0 EXCEPT !.source_wallet = new.self, !.destination_wallet = new.to_wallet,
                              !.amount = IF amount # None THEN amount[1] ELSE @,
                              !.description = IF description # None THEN StripOrNone(description) ELSE @]
         IN IF ~Transfer_clean_fields(t1)
            THEN Result(new.db, "DjangoValidationError")
            ELSE Result(Transfer_save(new.db, t1), OK)

update_transfer(db, transfer_uid, amount, description, user) ==
    IF amount # None /\ amount_not_positive(amount[1])
    THEN Result(db, "DRFValidationError")
    ELSE IF ~transfer_found(db, transfer_uid, user)
    THEN \* get_transfer_detail returned None and the next attribute access fails
         Result(db, "AttributeError")
    ELSE LET t0 == TransferInstance(db, transfer_uid)
             both == t0.destination_wallet.uid # NULL /\ t0.source_wallet.uid # NULL
             \* reverse previous transfer
             rev == IF amount # None /\ both
                    THEN Wallet_transfer_balance(db, t0.destination_wallet, t0.source_wallet, t0.amount)
                    ELSE [db |-> db, self |-> t0.destination_wallet, to_wallet |-> t0.source_wallet]
             \* perform new transfer
             new == IF amount # None /\ both
                    THEN Wallet_transfer_balance(rev.db, rev.to_wallet, rev.self, amount[1])
                    ELSE [db |-> rev.db, self |-> rev.to_wallet, to_wallet |-> rev.self]
             t1 == [t0 EXCEPT !.source_wallet = new.self, !.destination_wallet = new.to_wallet,
                              !.amount = IF amount # None THEN amount[1] ELSE @,
                              !.description = IF description # None THEN StripOrNone(description) ELSE @]
         IN IF ~Transfer_clean_fields(t1)
            THEN Result(new.db, "DjangoValidationError")
            ELSE Result(Transfer_save(new.db, t1), OK)

delete_transfer(db, transfer_uid, user) ==
    IF ~transfer_found(db, transfer_uid, user)
    THEN Result(db, "DRFValidationError")
    ELSE LET t == TransferInstance(db, transfer_uid)
             rev == IF t.source_wallet.uid # NULL /\ t.destination_wallet.uid # NULL
                    THEN Wallet_transfer_balance(db, t.destination_wallet, t.source_wallet, t.amount).db
                    ELSE db
         IN Result([rev EXCEPT !.transfer = [k \in DOMAIN rev.transfer \ {transfer_uid} |-> rev.transfer[k]]],
                   OK)

\* update_wallet: assigns the balance given, full_clean, save
update_wallet(db, balance, wallet_uid, user) ==
    LET wallet_instance == get_wallet_from_uid_and_user(db, wallet_uid, user)
    IN IF wallet_instance.uid = NULL THEN Result(db, "DRFValidationError")
       ELSE IF ~DecimalValid(balance) THEN Result(db, "DjangoValidationError")
       ELSE Result(Wallet_save(db, [wallet_instance EXCEPT !.balance = balance]), OK)

\* on_delete=SET_NULL of the foreign keys that reference a wallet
SetNull(ref, wallet_uid) == IF ref = wallet_uid THEN NULL ELSE ref

\* delete_wallet: DELETE of the row; the references to it become NULL
delete_wallet(db, wallet_uid, user) ==
    LET wallet_instance == get_wallet_from_uid_and_user(db, wallet_uid, user)
    IN IF wallet_instance.uid = NULL THEN Result(db, "DRFValidationError")
       ELSE Result(
         [db EXCEPT
            !.wallet = [w \in DOMAIN db.wallet \ {wallet_uid} |-> db.wallet[w]],
            !.expense = [k \in DOMAIN db.expense |->
                          [db.expense[k] EXCEPT !.wallet = SetNull(@, wallet_uid)]],
            !.income = [k \in DOMAIN db.income |->
                         [db.income[k] EXCEPT !.wallet = SetNull(@, wallet_uid)]],
            !.transfer = [k \in DOMAIN db.transfer |->
                           [db.transfer[k] EXCEPT !.source_wallet = SetNull(@, wallet_uid),
                                                  !.destination_wallet = SetNull(@, wallet_uid)]]],
         OK)

\* ------------------------------------------------ transaction/selectors.py
\* A date is <<year, month, day>>; the rows read here carry a field date.
DateLess(a, b) ==
    \/ a[1] < b[1]
    \/ a[1] = b[1] /\ a[2] < b[2]
    \/ a[1] = b[1] /\ a[2] = b[2] /\ a[3] < b[3]

\* sorted(date_groups.keys()) in the reverse order
RECURSIVE sorted_Descending(_)
sorted_Descending(S) ==
    IF S = {} THEN <<>>
    ELSE LET last_date == CHOOSE d \in S : \A e \in S \ {d} : DateLess(e, d)
         IN <<last_date>> \o sorted_Descending(S \ {last_date})

\* sorted(date_groups.keys())
RECURSIVE sorted(_)
sorted(S) ==
    IF S = {} THEN <<>>
    ELSE LET first == CHOOSE d \in S : \A e \in S \ {d} : DateLess(d, e)
         IN <<first>> \o sorted(S \ {first})

valid_types == {"all", "expense", "income", "transfer"}

\* the filters without date__month
Filters_NoMonth(year, month, user) == [user |-> user, year |-> year, month |-> None]

\* {'user': user, 'date__year': year}, and date__month "if month:"
Filters(year, month, user) == [user |-> user, year |-> year, month |-> month]

\* the rows of a table that pass the filters
Filtered(table, filters) ==
    {k \in DOMAIN table :
        /\ table[k].user = filters.user
        /\ table[k].date[1] = filters.year
        /\ filters.month # None => table[k].date[2] = filters.month[1]}

\* a query that may miss rows: some of the rows that pass, in date order
Queryset_Partial(table, filters) ==
    UNION {{q \in [1..Cardinality(S) -> S] :
              /\ \A i, j \in DOMAIN q : i # j => q[i] # q[j]
              /\ \A i, j \in DOMAIN q : i < j => ~DateLess(table[q[j]].date, table[q[i]].date)} :
           S \in SUBSET Filtered(table, filters)}

\* objects.filter(**filters).order_by('date'): the rows in date order; the
\* database is free in the order of rows of one date
Queryset(table, filters) ==
    LET S == Filtered(table, filters)
    IN {q \in [1..Cardinality(S) -> S] :
          /\ \A i, j \in DOMAIN q : i # j => q[i] # q[j]
          /\ \A i, j \in DOMAIN q : i < j => ~DateLess(table[q[j]].date, table[q[i]].date)}

\* from_expense, from_income, from_transfer: the entry made of a row
TransactionData(table, pk, transaction_type) ==
    [uid |-> pk, date |-> table[pk].date, amount |-> table[pk].amount,
     transaction_type |-> transaction_type]

\* DateGroup(date=None): amount Decimal('0'), no transactions
DateGroup == [date |-> NULL, amount |-> 0, transactions |-> <<>>]

\* the three loops, the expense loop adding the amount
Contribution_ExpenseAdds(transaction_type, amount) ==
    CASE transaction_type = "expense" -> amount
      [] transaction_type = "income" -> amount
      [] transaction_type = "transfer" -> 0

\* what a row changes date_group.amount by: "-= expense.amount",
\* "+= income.amount", nothing for a transfer
Contribution(transaction_type, amount) ==
    CASE transaction_type = "expense" -> -amount
      [] transaction_type = "income" -> amount
      [] transaction_type = "transfer" -> 0

\* one turn of a loop that puts the entry in front: transactions.insert(0, ...)
AddTransaction_Prepend(date_groups, table, pk, transaction_type) ==
    LET date == table[pk].date
        date_group == IF date \in DOMAIN date_groups THEN date_groups[date] ELSE DateGroup
        updated == [date |-> date,
                    amount |-> date_group.amount + Contribution(transaction_type, table[pk].amount),
                    transactions |-> <<TransactionData(table, pk, transaction_type)>>
                                       \o date_group.transactions]
    IN [d \in DOMAIN date_groups \cup {date} |-> IF d = date THEN updated ELSE date_groups[d]]

\* one turn of a loop: date_groups[row.date], created when missing, takes the
\* date, the amount and the entry
AddTransaction(date_groups, table, pk, transaction_type) ==
    LET date == table[pk].date
        date_group == IF date \in DOMAIN date_groups THEN date_groups[date] ELSE DateGroup
        updated == [date |-> date,
                    amount |-> date_group.amount + Contribution(transaction_type, table[pk].amount),
                    transactions |-> Append(date_group.transactions,
                                            TransactionData(table, pk, transaction_type))]
    IN [d \in DOMAIN date_groups \cup {date} |-> IF d = date THEN updated ELSE date_groups[d]]

\* "for row in queryset": the turns in the order of the queryset
RECURSIVE AddAll(_, _, _, _)
AddAll(date_groups, table, queryset, transaction_type) ==
    IF queryset = <<>> THEN date_groups
    ELSE AddAll(AddTransaction(date_groups, table, Head(queryset), transaction_type),
                table, Tail(queryset), transaction_type)

\* validation that lets every type through
type_is_valid_Always(transaction_type) == TRUE

\* transaction_type in valid_types
type_is_valid(transaction_type) == transaction_type \in valid_types

\* get_transaction_list: the results the call can have, one for each order in
\* which the database can return the rows of one date.  queries are the
\* tables the call has queried.
get_transaction_list(db, year, month, user, transaction_type) ==
    IF ~type_is_valid(transaction_type)
    THEN {[err |-> "DRFValidationError", queries |-> {}, result |-> <<>>]}
    ELSE LET filters == Filters(year, month, user)
             wanted(t) == transaction_type \in {"all", t}
             none == {<<>>}
         IN {LET g0 == [d \in {} |-> DateGroup]
                 g1 == AddAll(g0, db.expense, expenses, "expense")
                 g2 == AddAll(g1, db.income, incomes, "income")
                 g3 == AddAll(g2, db.transfer, transfers, "transfer")
                 dates == sorted(DOMAIN g3)
             IN [err |-> OK,
                 queries |-> {t \in {"expense", "income", "transfer"} : wanted(t)},
                 result |-> [i \in DOMAIN dates |-> g3[dates[i]]]] :
             expenses \in (IF wanted("expense") THEN Queryset(db.expense, filters) ELSE none),
             incomes \in (IF wanted("income") THEN Queryset(db.income, filters) ELSE none),
             transfers \in (IF wanted("transfer") THEN Queryset(db.transfer, filters) ELSE none)}

\* ------------------------------------------------------------- history
NoRound == [kind |-> "none", pk |-> 0, pre |-> [w \in {} |-> 0], updated |-> FALSE]

\* the table a service call works on, and whether it creates, updates or deletes
OpKind ==
    [create_user_expense |-> "expense", update_user_expense |-> "expense",
     delete_user_expense |-> "expense",
     create_income |-> "income", CreateIncomeAPIView_post |-> "income",
     update_income |-> "income", delete_user_income |-> "income",
     create_transfer |-> "transfer", update_transfer |-> "transfer",
     delete_transfer |-> "transfer",
     update_wallet |-> "wallet", delete_wallet |-> "wallet"]
CreateOps == {"create_user_expense", "create_income", "CreateIncomeAPIView_post", "create_transfer"}
UpdateOps == {"update_user_expense", "update_income", "update_transfer"}
DeleteOps == {"delete_user_expense", "delete_user_income", "delete_transfer"}
TransferOps == {"create_transfer", "update_transfer", "delete_transfer"}

\* One service call: r is what the service computed from DB.  The tables take
\* the value the transaction leaves; the history variables record the call.
\* uid is the record the call names (0 for a create, which then records the
\* primary key of the row it inserted); old is the amount the named record had
\* before the call, None when there is no such record.
Call(op, user, uid, amount, category, w1, w2, r) ==
    LET db2 == Atomic(DB, r)
        pk == IF op \in CreateOps
              THEN (IF r.err = OK THEN db2.seq[OpKind[op]] ELSE 0)
              ELSE uid
    IN /\ wallet' = db2.wallet
       /\ expense' = db2.expense
       /\ income' = db2.income
       /\ transfer' = db2.transfer
       /\ seq' = db2.seq
       /\ last' = [op |-> op, user |-> user, err |-> r.err, uid |-> pk,
                   amount |-> amount, category |-> category,
                   wallet |-> w1, wallet2 |-> w2,
                   old |-> IF op \in UpdateOps \cup DeleteOps /\ uid \in DOMAIN DB[OpKind[op]]
                           THEN Some(DB[OpKind[op]][uid].amount) ELSE None]
       /\ round' = IF r.err # OK THEN round
                   ELSE IF op \in CreateOps
                   THEN [kind |-> OpKind[op], pk |-> pk, pre |-> wallet, updated |-> FALSE]
                   ELSE IF round.kind = OpKind[op] /\ round.pk = uid
                   THEN [round EXCEPT !.updated = @ \/ op \in UpdateOps]
                   ELSE NoRound
       /\ admin' = (admin \/ (r.err = OK /\ OpKind[op] = "wallet"))
       /\ budget' = budget - 1
       /\ UNCHANGED <<held, flow, feed, request>>

\* ------------------------------------------------------------- actions
\* the uids a call can name: every primary key handed out so far, deleted or
\* not, and one that was never handed out
Uids(kind) == 1..(seq[kind] + 1)

CreateUserExpense ==
    \E user \in Users, amount \in SignedAmounts, category \in CategoryIds \cup {NULL},
       wallet_uid \in WalletIds :
        /\ budget > 0
        /\ Call("create_user_expense", user, 0, Some(amount), category, wallet_uid, NULL,
             create_user_expense(DB, amount, category, wallet_uid, user))

UpdateUserExpense ==
    \E user \in Users, expense_uid \in Uids("expense"), amount \in Opt(Amounts),
       category \in CategoryIds \cup {NULL}, wallet_uid \in WalletIds \cup {NULL} :
        /\ budget > 0
        /\ Call("update_user_expense", user, expense_uid, amount, category, wallet_uid, NULL,
             update_user_expense(DB, amount, category, wallet_uid, expense_uid, user))

DeleteUserExpense ==
    \E user \in Users, expense_uid \in Uids("expense") :
        /\ budget > 0
        /\ Call("delete_user_expense", user, expense_uid, None, NULL, NULL, NULL,
             delete_user_expense(DB, expense_uid, user))

CreateIncome ==
    \E user \in Users, amount \in Amounts, category_uid \in CategoryIds \cup {NULL} :
        /\ budget > 0
        /\ Call("create_income", user, 0, Some(amount), category_uid, NULL, NULL,
             create_income(DB, amount, category_uid, user))

CreateIncomeView ==
    \E user \in Users, amount \in Amounts, category \in CategoryIds \cup {NULL},
       wallet_uid \in WalletIds :
        /\ budget > 0
        /\ Call("CreateIncomeAPIView_post", user, 0, Some(amount), category, wallet_uid, NULL,
             CreateIncomeAPIView_post(DB, amount, category, wallet_uid, user))

UpdateIncome ==
    \E user \in Users, income_uid \in Uids("income"), amount \in Amounts,
       category_uid \in CategoryIds \cup {NULL} :
        /\ budget > 0
        /\ Call("update_income", user, income_uid, Some(amount), category_uid, NULL, NULL,
             update_income(DB, amount, category_uid, income_uid, user))

DeleteUserIncome ==
    \E user \in Users, income_uid \in Uids("income") :
        /\ budget > 0
        /\ Call("delete_user_income", user, income_uid, None, NULL, NULL, NULL,
             delete_user_income(DB, income_uid, user))

CreateTransfer ==
    \E user \in Users, amount \in SignedAmounts, description \in Opt({"rent"}),
       source_wallet_uid \in WalletIds, destination_wallet_uid \in WalletIds :
        /\ budget > 0
        /\ Call("create_transfer", user, 0, Some(amount), NULL, source_wallet_uid, destination_wallet_uid,
             create_transfer(DB, source_wallet_uid, destination_wallet_uid, amount, description, user))

UpdateTransfer ==
    \E user \in Users, transfer_uid \in Uids("transfer"), amount \in Opt(SignedAmounts),
       description \in Opt(Descriptions) :
        /\ budget > 0
        /\ Call("update_transfer", user, transfer_uid, amount, NULL, NULL, NULL,
             update_transfer(DB, transfer_uid, amount, description, user))

DeleteTransfer ==
    \E user \in Users, transfer_uid \in Uids("transfer") :
        /\ budget > 0
        /\ Call("delete_transfer", user, transfer_uid, None, NULL, NULL, NULL,
             delete_transfer(DB, transfer_uid, user))

UpdateWallet ==
    \E user \in Users, wallet_uid \in WalletIds, balance \in Balances :
        /\ budget > 0
        /\ Call("update_wallet", user, 0, Some(balance), NULL, wallet_uid, NULL,
             update_wallet(DB, balance, wallet_uid, user))

DeleteWallet ==
    \E user \in Users, wallet_uid \in WalletIds :
        /\ budget > 0
        /\ Call("delete_wallet", user, 0, None, NULL, wallet_uid, NULL,
             delete_wallet(DB, wallet_uid, user))

\* -------------------------------------- Wallet.deposit, Wallet.withdraw
\* A caller holds Wallet instances between calls.  A call is made on the
\* instance held, or on one fetched for the call, which is then the one held.
NoCall == [op |-> "none", user |-> NULL, err |-> OK, uid |-> 0,
           amount |-> None, category |-> NULL,
           wallet |-> NULL, wallet2 |-> NULL, old |-> None]
NoFlow == [w \in WalletIds |-> [deposited |-> 0, withdrawn |-> 0]]
NoFeed == [op |-> "none"]
Requests == 1..MaxRequests
NoRequest == [pc |-> "idle", user |-> NULL, amount |-> 0, description |-> None,
              source_wallet |-> NoneObj, destination_wallet |-> NoneObj, err |-> OK]
NoRequests == [p \in Requests |-> NoRequest]

\* the amounts a balance can move by without leaving the range of its column
Moves == {a \in SignedAmounts : DecimalValid(a)}

Instance(w, fetch) ==
    IF fetch \/ w \notin DOMAIN held THEN WalletObj(DB, w) ELSE [uid |-> w, balance |-> held[w]]

Hold(self) == [w \in DOMAIN held \cup {self.uid} |-> IF w = self.uid THEN self.balance ELSE held[w]]

Deposit ==
    \E w \in DOMAIN wallet, amount \in Moves, fetch \in BOOLEAN :
        LET r == Wallet_deposit(DB, Instance(w, fetch), amount)
        IN /\ budget > 0
           /\ wallet' = r.db.wallet
           /\ held' = Hold(r.self)
           /\ flow' = [flow EXCEPT ![w].deposited = @ + amount]
           /\ last' = [NoCall EXCEPT !.op = "deposit", !.wallet = w, !.amount = Some(amount)]
           /\ budget' = budget - 1
           /\ UNCHANGED <<expense, income, transfer, seq, round, admin, feed, request>>

Withdraw ==
    \E w \in DOMAIN wallet, amount \in Moves, fetch \in BOOLEAN :
        LET r == Wallet_withdraw(DB, Instance(w, fetch), amount)
        IN /\ budget > 0
           /\ wallet' = r.db.wallet
           /\ held' = Hold(r.self)
           /\ flow' = [flow EXCEPT ![w].withdrawn = @ + amount]
           /\ last' = [NoCall EXCEPT !.op = "withdraw", !.wallet = w, !.amount = Some(amount)]
           /\ budget' = budget - 1
           /\ UNCHANGED <<expense, income, transfer, seq, round, admin, feed, request>>

\* --------------------------------------------------- get_transaction_list
\* one call in a behaviour, on the tables the behaviour starts with
Years == {2024, 2025}
Months == {5}
Dates == {<<2024, 5, 1>>, <<2024, 5, 2>>, <<2024, 6, 1>>, <<2025, 5, 1>>}
TransactionTypes == valid_types \cup {"bogus"}

GetTransactionList ==
    \E user \in Users, year \in Years, month \in Opt(Months),
       transaction_type \in TransactionTypes :
        /\ feed = NoFeed
        /\ \E r \in get_transaction_list(DB, year, month, user, transaction_type) :
            /\ feed' = [op |-> "get_transaction_list", user |-> user, year |-> year,
                        month |-> month, transaction_type |-> transaction_type,
                        err |-> r.err, queries |-> r.queries, result |-> r.result]
            /\ UNCHANGED <<wallet, expense, income, transfer, seq, last, round, admin,
                           budget, held, flow, request>>

\* the database after the wallets were created: no record yet
InitTables ==
    /\ wallet = InitBalance
    /\ expense = [k \in {} |-> 0]
    /\ income = [k \in {} |-> 0]
    /\ transfer = [k \in {} |-> 0]
    /\ seq = [expense |-> 0, income |-> 0, transfer |-> 0]
    /\ last = NoCall
    /\ round = NoRound
    /\ admin = FALSE
    /\ held = [w \in {} |-> 0]
    /\ flow = NoFlow
    /\ feed = NoFeed
    /\ request = NoRequests

\* every service
Init ==
    /\ InitTables
    /\ budget = MaxCalls

Next ==
    \/ CreateUserExpense
    \/ UpdateUserExpense
    \/ DeleteUserExpense
    \/ CreateIncome
    \/ CreateIncomeView
    \/ UpdateIncome
    \/ DeleteUserIncome
    \/ CreateTransfer
    \/ UpdateTransfer
    \/ DeleteTransfer
    \/ UpdateWallet
    \/ DeleteWallet

Spec == Init /\ [][Next]_vars

\* the transfer services and delete_wallet, over longer behaviours
InitTransfer ==
    /\ InitTables
    /\ budget = MaxOps

NextTransfer ==
    \/ CreateTransfer
    \/ UpdateTransfer
    \/ DeleteTransfer
    \/ DeleteWallet

SpecTransfer == InitTransfer /\ [][NextTransfer]_vars

\* deposit and withdraw called on wallets directly
InitWallet ==
    /\ InitTables
    /\ budget = MaxMoves

NextWallet ==
    \/ Deposit
    \/ Withdraw

SpecWallet == InitWallet /\ [][NextWallet]_vars

\* The delete services on tables that already hold rows.  A row references a
\* wallet of its user or none; the income table holds rows bound to a wallet
\* however they were inserted.
Rows ==
    {row \in [user : Users, wallet : WalletIds \cup {NULL}, amount : {20, 30}, category : {NULL}] :
        row.wallet # NULL => WalletOwner[row.wallet] = row.user}

Tables(n) == UNION {[1..k -> Rows] : k \in 0..n}

InitRecords ==
    /\ wallet = InitBalance
    /\ expense \in Tables(MaxRows)
    /\ income \in Tables(MaxRows)
    /\ transfer = [k \in {} |-> 0]
    /\ seq = [expense |-> Len(expense), income |-> Len(income), transfer |-> 0]
    /\ last = NoCall
    /\ round = NoRound
    /\ admin = FALSE
    /\ held = [w \in {} |-> 0]
    /\ flow = NoFlow
    /\ feed = NoFeed
    /\ request = NoRequests
    /\ budget = MaxDeletes

NextRecords ==
    \/ DeleteUserExpense
    \/ DeleteUserIncome

SpecRecords == InitRecords /\ [][NextRecords]_vars

\* The expense services on an expense table that already holds rows of user
\* u1: expenses of 20, on wallet w1 or on no wallet (its wallet was deleted).
OwnRows == {row \in Rows : row.user = "u1" /\ row.amount = 20 /\ row.wallet \in {"w1", NULL}}

InitExpense ==
    /\ wallet = InitBalance
    /\ expense \in UNION {[1..k -> OwnRows] : k \in 0..MaxRows}
    /\ income = [k \in {} |-> 0]
    /\ transfer = [k \in {} |-> 0]
    /\ seq = [expense |-> Len(expense), income |-> 0, transfer |-> 0]
    /\ last = NoCall
    /\ round = NoRound
    /\ admin = FALSE
    /\ held = [w \in {} |-> 0]
    /\ flow = NoFlow
    /\ feed = NoFeed
    /\ request = NoRequests
    /\ budget = MaxTries

NextExpense ==
    \/ CreateUserExpense
    \/ UpdateUserExpense
    \/ DeleteUserExpense

SpecExpense == InitExpense /\ [][NextExpense]_vars

\* get_transaction_list on tables that hold dated records of both users
RecordAmounts == [expense |-> {20, 30}, income |-> {50}, transfer |-> {10}]

Records ==
    {record \in [transaction_type : {"expense", "income", "transfer"}, user : Users,
                 date : Dates, amount : {10, 20, 30, 50}] :
        record.amount \in RecordAmounts[record.transaction_type]}

\* the sets of at most n elements of S
RECURSIVE SubsetsUpTo(_, _)
SubsetsUpTo(S, n) ==
    IF n = 0 THEN {{}}
    ELSE LET smaller == SubsetsUpTo(S, n - 1)
         IN smaller \cup {T \cup {x} : T \in smaller, x \in S}

\* a set as a sequence, in some order
RECURSIVE Listed(_)
Listed(S) ==
    IF S = {} THEN <<>>
    ELSE LET x == CHOOSE y \in S : TRUE IN <<x>> \o Listed(S \ {x})

ExpenseRowOf(record) ==
    [user |-> record.user, wallet |-> NULL, amount |-> record.amount,
     category |-> NULL, date |-> record.date]

TransferRowOf(record) ==
    [user |-> record.user, source_wallet |-> NULL, destination_wallet |-> NULL,
     amount |-> record.amount, description |-> NULL, date |-> record.date]

\* the rows of one type among the records, as a table
TableOf(records, transaction_type) ==
    LET rows == Listed({r \in records : r.transaction_type = transaction_type})
    IN [k \in DOMAIN rows |->
          IF transaction_type = "transfer" THEN TransferRowOf(rows[k]) ELSE ExpenseRowOf(rows[k])]

InitFeed ==
    \E records \in SubsetsUpTo(Records, MaxRecords) :
        /\ wallet = InitBalance
        /\ expense = TableOf(records, "expense")
        /\ income = TableOf(records, "income")
        /\ transfer = TableOf(records, "transfer")
        /\ seq = [expense |-> Len(expense), income |-> Len(income), transfer |-> Len(transfer)]
        /\ last = NoCall
        /\ round = NoRound
        /\ admin = FALSE
        /\ held = [w \in {} |-> 0]
        /\ flow = NoFlow
        /\ feed = NoFeed
        /\ request = NoRequests
        /\ budget = 0

NextFeed ==
    \/ GetTransactionList

SpecFeed == InitFeed /\ [][NextFeed]_vars

\* ============================================================ properties
\* the amounts of the rows S of a table, summed
SumAmounts(table, S) == SumOver([k \in DOMAIN table |-> table[k].amount], S)

\* what the records now bound to wallet w add up to, on top of its initial balance
LedgerBalance(w) ==
    InitBalance[w]
    + SumAmounts(income, {k \in DOMAIN income : income[k].wallet = w})
    - SumAmounts(expense, {k \in DOMAIN expense : expense[k].wallet = w})
    + SumAmounts(transfer, {k \in DOMAIN transfer : transfer[k].destination_wallet = w})
    - SumAmounts(transfer, {k \in DOMAIN transfer : transfer[k].source_wallet = w})

\* the persisted balances of the wallets of one user, summed
UserTotal(balances, user) ==
    SumOver(balances, {w \in DOMAIN balances : WalletOwner[w] = user})

\* the last call was this service and it returned normally
Returned(op) == last.op = op /\ last.err = OK

\* C1: with no update_wallet and no delete_wallet so far, every wallet's
\* persisted balance is its initial balance plus the incomes bound to it,
\* minus the expenses bound to it, plus the transfers into it, minus the
\* transfers out of it.
C1_BalanceEqualsLedger ==
    ~admin => \A w \in DOMAIN wallet : wallet[w] = LedgerBalance(w)

\* C2: a create_user_expense that returns has decreased the persisted balance
\* of its wallet by exactly its amount, once, and has persisted one expense
\* bound to that wallet with that amount.
C2_CreateExpenseDecreasesByAmount ==
    Returned("create_user_expense") =>
        /\ wallet[last.wallet] = round.pre[last.wallet] - last.amount[1]
        /\ last.uid \in DOMAIN expense
        /\ expense[last.uid].wallet = last.wallet
        /\ expense[last.uid].amount = last.amount[1]

\* C3: create_user_expense followed by delete_user_expense of that expense
\* leaves the balances as they were before the creation, and no expense record.
C3_CreateDeleteExpenseRestores ==
    (Returned("delete_user_expense") /\ round.kind = "expense"
        /\ round.pk = last.uid /\ ~round.updated) =>
        /\ wallet = round.pre
        /\ last.uid \notin DOMAIN expense

\* a call with a category the caller owns or none, and a positive amount the
\* amount field accepts
ValidAmountAndCategory(call) ==
    /\ call.category # NULL => category_found(call.category, call.user)
    /\ call.amount # None
    /\ call.amount[1] > 0
    /\ DecimalValid(call.amount[1])

\* ... that also names a wallet the caller owns
ValidFields(call) ==
    /\ ValidAmountAndCategory(call)
    /\ call.wallet \in DOMAIN wallet
    /\ WalletOwner[call.wallet] = call.user

\* C4: creating an income of amount A on wallet W through the income create
\* service (called by itself, or by the view with the wallet the request
\* names) increases the persisted balance of W by exactly A and persists an
\* income bound to W.
C4_CreateIncomeIncreasesByAmount ==
    [][(\/ last'.op = "create_income" /\ ValidAmountAndCategory(last')
        \/ last'.op = "CreateIncomeAPIView_post" /\ ValidFields(last')) =>
          /\ last'.err = OK
          /\ \E W \in {w \in DOMAIN wallet : WalletOwner[w] = last'.user} :
                /\ last'.op = "CreateIncomeAPIView_post" => W = last'.wallet
                /\ wallet'[W] = wallet[W] + last'.amount[1]
                /\ \E k \in DOMAIN income' \ DOMAIN income :
                      /\ income'[k].wallet = W
                      /\ income'[k].amount = last'.amount[1]]_vars

\* C5: an update_user_expense that returns and moves an expense of amount A
\* from wallet W1 to another wallet W2, keeping the amount, increases the
\* persisted balance of W1 by A and decreases that of W2 by A.
C5_MoveExpenseBetweenWallets ==
    [][(/\ last'.op = "update_user_expense" /\ last'.err = OK
        /\ expense[last'.uid].wallet # NULL
        /\ expense[last'.uid].amount > 0
        /\ expense'[last'.uid].wallet # expense[last'.uid].wallet
        /\ expense'[last'.uid].amount = expense[last'.uid].amount) =>
          LET W1 == expense[last'.uid].wallet
              W2 == expense'[last'.uid].wallet
              A == expense[last'.uid].amount
          IN /\ wallet'[W1] = wallet[W1] + A
             /\ wallet'[W2] = wallet[W2] - A
             /\ wallet'[W1] + wallet'[W2] = wallet[W1] + wallet[W2]]_vars

\* C6: an update that returns, keeps the wallet W of the record and changes
\* its amount from old to new changes the persisted balance of W by
\* -(new - old) for an expense and by +(new - old) for an income.
C6_SameWalletAmountDifference ==
    [][/\ (/\ last'.op = "update_user_expense" /\ last'.err = OK
           /\ expense[last'.uid].wallet # NULL
           /\ expense[last'.uid].amount > 0
           /\ expense'[last'.uid].wallet = expense[last'.uid].wallet
           /\ expense'[last'.uid].amount # expense[last'.uid].amount) =>
             LET W == expense[last'.uid].wallet
             IN wallet'[W] = wallet[W] - (expense'[last'.uid].amount - expense[last'.uid].amount)
       /\ (/\ last'.op = "update_income" /\ last'.err = OK
           /\ income[last'.uid].wallet # NULL
           /\ income'[last'.uid].wallet = income[last'.uid].wallet
           /\ income'[last'.uid].amount # income[last'.uid].amount) =>
             LET W == income[last'.uid].wallet
             IN wallet'[W] = wallet[W] + (income'[last'.uid].amount - income[last'.uid].amount)]_vars

\* C7: create_transfer from W1 to another wallet W2 of the caller with an
\* amount A > 0 that the amount field accepts returns, decreases the
\* persisted balance of W1 by exactly A, increases that of W2 by exactly A,
\* leaves the other wallets alone and persists one transfer record that
\* references W1, W2 and A; and a create_transfer returns in no other case.
C7_CreateTransferMovesAmount ==
    [][last'.op = "create_transfer" =>
         LET W1 == last'.wallet
             W2 == last'.wallet2
             A == last'.amount[1]
             valid == /\ W1 # W2 /\ A > 0 /\ DecimalValid(A)
                      /\ {W1, W2} \subseteq DOMAIN wallet
                      /\ WalletOwner[W1] = last'.user /\ WalletOwner[W2] = last'.user
         IN /\ valid <=> last'.err = OK
            /\ valid =>
                 /\ wallet' = [wallet EXCEPT ![W1] = @ - A, ![W2] = @ + A]
                 /\ last'.uid \notin DOMAIN transfer
                 /\ DOMAIN transfer' = DOMAIN transfer \cup {last'.uid}
                 /\ \A k \in DOMAIN transfer : transfer'[k] = transfer[k]
                 /\ transfer'[last'.uid].source_wallet = W1
                 /\ transfer'[last'.uid].destination_wallet = W2
                 /\ transfer'[last'.uid].amount = A
                 /\ transfer'[last'.uid].user = last'.user]_vars

\* the example of the specification: 100/50 and a transfer of 30 give 70/80
C7_Witness ==
    /\ Returned("create_transfer")
    /\ last.wallet = "w1" /\ last.wallet2 = "w2" /\ last.amount = Some(30)
    /\ round.pre["w1"] = 100 /\ round.pre["w2"] = 50
    /\ wallet["w1"] = 70 /\ wallet["w2"] = 80
    /\ last.uid \in DOMAIN transfer

\* C8: when a transfer is created, then updated any number of times, then
\* deleted, with both its wallets still there, every persisted balance is
\* what it was before the creation and the transfer record is gone.
C8_CreateUpdateDeleteTransferRestores ==
    (/\ Returned("delete_transfer")
     /\ round.kind = "transfer" /\ round.pk = last.uid
     /\ DOMAIN wallet = DOMAIN round.pre) =>
        /\ wallet = round.pre
        /\ last.uid \notin DOMAIN transfer

\* a transfer created, updated and then deleted
C8_Witness ==
    /\ Returned("delete_transfer")
    /\ round.kind = "transfer" /\ round.pk = last.uid /\ round.updated
    /\ DOMAIN wallet = DOMAIN round.pre
    /\ last.uid \notin DOMAIN transfer

\* C9: create_transfer with the source wallet equal to the destination wallet
\* raises the service's validation error, persists no transfer record and
\* leaves every wallet balance unchanged.
C9_SameWalletTransferRejected ==
    [][(last'.op = "create_transfer" /\ last'.wallet = last'.wallet2) =>
          /\ last'.err = "DRFValidationError"
          /\ wallet' = wallet
          /\ transfer' = transfer
          /\ seq' = seq]_vars

\* a transfer from a wallet of the caller to itself, with a valid amount, was refused
C9_Witness ==
    /\ last.op = "create_transfer"
    /\ last.wallet = last.wallet2
    /\ last.wallet \in DOMAIN wallet /\ WalletOwner[last.wallet] = last.user
    /\ last.amount[1] > 0 /\ DecimalValid(last.amount[1])
    /\ last.err = "DRFValidationError"

\* C10: while no wallet has been deleted, a create_transfer, update_transfer
\* or delete_transfer call, returning or raising, leaves the sum of the
\* persisted balances of each user's wallets as it was before the call.
C10_TransfersConserveMoney ==
    [][(last'.op \in TransferOps /\ DOMAIN wallet = WalletIds) =>
          \A user \in Users : UserTotal(wallet', user) = UserTotal(wallet, user)]_vars

\* an update_transfer changed the amount of a transfer and so moved balances
C10_Witness ==
    /\ Returned("update_transfer")
    /\ last.amount # None
    /\ last.uid \in DOMAIN transfer
    /\ DOMAIN wallet = WalletIds
    /\ wallet # InitBalance
    /\ \A user \in Users : UserTotal(wallet, user) = UserTotal(InitBalance, user)

\* C11: after any sequence of deposit and withdraw calls, the persisted
\* balance of every wallet is its initial balance plus the deposits minus the
\* withdrawals made on it, and the balance an instance holds in memory is
\* the persisted one: every call has written through.
C11_BalanceIsInitialPlusFlow ==
    \A w \in DOMAIN wallet :
        /\ wallet[w] = InitBalance[w] + flow[w].deposited - flow[w].withdrawn
        /\ w \in DOMAIN held => held[w] = wallet[w]

\* deposits and withdrawals on the same wallet, the last on the instance held
C11_Witness ==
    /\ last.op = "withdraw" /\ last.amount = Some(30)
    /\ flow["w1"] = [deposited |-> 20, withdrawn |-> 60]
    /\ wallet["w1"] = 60 /\ held["w1"] = 60

\* a table without the row k
Without(table, k) == [j \in DOMAIN table \ {k} |-> table[j]]

\* the balances after amount was added to wallet w, the balances as they are
\* when the record has no wallet
Credited(w, amount) == IF w = NULL THEN wallet ELSE [wallet EXCEPT ![w] = @ + amount]

\* C12: a delete_user_expense that returns has increased the persisted
\* balance of the expense's wallet by exactly the expense's amount, a
\* delete_user_income that returns has decreased the balance of the income's
\* wallet by exactly the income's amount; in the same step the record is gone,
\* and no other wallet and no other record has changed.
C12_DeleteReversesLedgerEffect ==
    [][/\ (last'.op = "delete_user_expense" /\ last'.err = OK) =>
             /\ wallet' = Credited(expense[last'.uid].wallet, expense[last'.uid].amount)
             /\ expense' = Without(expense, last'.uid)
             /\ income' = income
       /\ (last'.op = "delete_user_income" /\ last'.err = OK) =>
             /\ wallet' = Credited(income[last'.uid].wallet, -income[last'.uid].amount)
             /\ income' = Without(income, last'.uid)
             /\ expense' = expense]_vars

\* an expense of 20 and an income of 30, both bound to w1, were deleted
C12_Witness ==
    /\ Returned("delete_user_income") /\ last.old = Some(30)
    /\ seq.expense = 1 /\ DOMAIN expense = {}
    /\ seq.income = 1 /\ DOMAIN income = {}
    /\ wallet = [InitBalance EXCEPT !["w1"] = @ + 20 - 30]

\* C13: an update_transfer that returns and was given the amount new, on a
\* transfer of amount old whose two wallets are present, leaves the source
\* wallet at its prior balance + old - new, the destination wallet at its
\* prior balance - old + new, and the transfer record with the amount new.
C13_UpdateTransferAmount ==
    [][(/\ last'.op = "update_transfer" /\ last'.err = OK /\ last'.amount # None
        /\ transfer[last'.uid].source_wallet # NULL
        /\ transfer[last'.uid].destination_wallet # NULL) =>
          LET S == transfer[last'.uid].source_wallet
              D == transfer[last'.uid].destination_wallet
              old == transfer[last'.uid].amount
              new == last'.amount[1]
          IN /\ wallet' = [wallet EXCEPT ![S] = @ + old - new, ![D] = @ - old + new]
             /\ transfer'[last'.uid].amount = new]_vars

\* a transfer of 20 from w1 to w2 was updated to 30: 80/70 became 70/80
C13_Witness ==
    /\ Returned("update_transfer")
    /\ last.old = Some(20) /\ last.amount = Some(30)
    /\ transfer[last.uid].source_wallet = "w1"
    /\ transfer[last.uid].destination_wallet = "w2"
    /\ transfer[last.uid].amount = 30
    /\ wallet["w1"] = 70 /\ wallet["w2"] = 80

\* C14: a create_user_expense or update_user_expense that raises, for whatever
\* reason, leaves every persisted wallet balance and every persisted record
\* as it was before the call.
C14_FailedExpenseCallChangesNothing ==
    [][(last'.op \in {"create_user_expense", "update_user_expense"} /\ last'.err # OK) =>
          /\ wallet' = wallet
          /\ expense' = expense
          /\ income' = income
          /\ transfer' = transfer]_vars

\* an update that moved the expense to another wallet of the caller, so that
\* clean() had saved the previous wallet, and then failed on the amount field
C14_Witness ==
    /\ last.op = "update_user_expense" /\ last.err = "DjangoValidationError"
    /\ last.amount = Some(TooManyDigits)
    /\ expense_found(DB, last.uid, last.user)
    /\ expense[last.uid].wallet # NULL
    /\ last.wallet \in DOMAIN wallet /\ WalletOwner[last.wallet] = last.user
    /\ last.wallet # expense[last.uid].wallet

\* C15: every persisted expense and every persisted income has an amount
\* greater than zero.
C15_AmountsPositive ==
    /\ \A k \in DOMAIN expense : expense[k].amount > 0
    /\ \A k \in DOMAIN income : income[k].amount > 0

\* C16: a create_transfer or update_transfer called with an amount that is
\* zero or negative raises the service's validation error and leaves every
\* wallet balance and every transfer record unchanged; after every step all
\* persisted transfers have an amount greater than zero.
C16_NonPositiveTransferRejected ==
    [][/\ (/\ last'.op \in {"create_transfer", "update_transfer"}
           /\ last'.amount # None /\ last'.amount[1] <= 0) =>
             /\ last'.err = "DRFValidationError"
             /\ wallet' = wallet
             /\ transfer' = transfer
             /\ seq' = seq
       /\ \A k \in DOMAIN transfer' : transfer'[k].amount > 0]_vars

\* an update of an existing transfer of the caller to the amount zero was refused
C16_Witness ==
    /\ last.op = "update_transfer" /\ last.err = "DRFValidationError"
    /\ last.amount = Some(0)
    /\ transfer_found(DB, last.uid, last.user)
    /\ transfer[last.uid].amount > 0

\* ------------------------------------------------- get_transaction_list
\* the last call of get_transaction_list returned
ListReturned == feed.op = "get_transaction_list" /\ feed.err = OK

RecordTypes == {"expense", "income", "transfer"}

\* the record types the call asked for
Requested == {t \in RecordTypes : feed.transaction_type \in {"all", t}}

\* a date in the year and, when a month was given, the month the call asked for
InPeriod(date) ==
    /\ date[1] = feed.year
    /\ feed.month # None => date[2] = feed.month[1]

\* the caller's records of type t in the period
Matching(t) == {k \in DOMAIN DB[t] : DB[t][k].user = feed.user /\ InPeriod(DB[t][k].date)}

\* the places <<group, entry>> of the returned list
Places == {p \in (DOMAIN feed.result) \X (1..MaxRecords + 1) :
             p[2] \in DOMAIN feed.result[p[1]].transactions}

Entry(p) == feed.result[p[1]].transactions[p[2]]

\* C17: in the list returned for the type 'all', the amount of every date
\* group is the sum of the caller's incomes of that date in the period minus
\* the sum of the caller's expenses of that date in the period; transfers add
\* nothing.
C17_GroupAmountIsIncomeMinusExpense ==
    (ListReturned /\ feed.transaction_type = "all") =>
        \A i \in DOMAIN feed.result :
            LET group == feed.result[i]
            IN group.amount =
                 SumAmounts(income, {k \in Matching("income") : income[k].date = group.date})
                 - SumAmounts(expense, {k \in Matching("expense") : expense[k].date = group.date})

\* the example of the specification with a transfer added: an expense of 20,
\* an income of 50 and a transfer on one date give one group of amount 30
C17_Witness ==
    /\ ListReturned /\ feed.transaction_type = "all"
    /\ Len(feed.result) = 1
    /\ feed.result[1].amount = 30
    /\ Len(feed.result[1].transactions) = 3
    /\ {feed.result[1].transactions[j].transaction_type : j \in 1..3} = RecordTypes
    /\ \E k \in DOMAIN expense : expense[k].amount = 20 /\ expense[k].date = feed.result[1].date

\* C18: the entries of the returned list are exactly the caller's records of
\* the requested types whose date is in the requested year and, when a month
\* was given, month: every entry is such a record and stands in the group of
\* the record's date, and every such record is entered exactly once.
C18_EntriesAreTheMatchingRecords ==
    ListReturned =>
        /\ \A p \in Places :
              /\ Entry(p).transaction_type \in Requested
              /\ Entry(p).uid \in Matching(Entry(p).transaction_type)
              /\ feed.result[p[1]].date = DB[Entry(p).transaction_type][Entry(p).uid].date
        /\ \A t \in Requested : \A k \in Matching(t) :
              Cardinality({p \in Places : Entry(p).transaction_type = t /\ Entry(p).uid = k}) = 1

\* a call with a month: one record entered, one of the caller in another
\* month of the year left out, one of the other user in the period left out
C18_Witness ==
    /\ ListReturned /\ feed.month # None
    /\ Cardinality(Places) = 1
    /\ \E t \in Requested : \E k \in DOMAIN DB[t] :
          /\ DB[t][k].user = feed.user
          /\ DB[t][k].date[1] = feed.year /\ DB[t][k].date[2] # feed.month[1]
    /\ \E t \in Requested : \E k \in DOMAIN DB[t] :
          DB[t][k].user # feed.user /\ InPeriod(DB[t][k].date)

\* C19: the returned groups are in strictly ascending order of date, so no
\* date has two groups; every group has at least one entry; every entry has
\* the date of its group.
C19_GroupsSortedAndNonEmpty ==
    ListReturned =>
        /\ \A i, j \in DOMAIN feed.result :
              i < j => DateLess(feed.result[i].date, feed.result[j].date)
        /\ \A i \in DOMAIN feed.result : Len(feed.result[i].transactions) >= 1
        /\ \A p \in Places : Entry(p).date = feed.result[p[1]].date

\* two groups, the first one made by the income loop after the expense loop
\* had made the second one; the second one holds two entries
C19_Witness ==
    /\ ListReturned
    /\ Len(feed.result) = 2
    /\ feed.result[1].transactions[1].transaction_type = "income"
    /\ feed.result[2].transactions[1].transaction_type = "expense"
    /\ Len(feed.result[2].transactions) = 2

\* C20: get_transaction_list called with a type other than 'all', 'expense',
\* 'income' and 'transfer' raises the validation error, has queried no table
\* and returns no group.
C20_InvalidTypeRejected ==
    (/\ feed.op = "get_transaction_list"
     /\ feed.transaction_type \notin {"all", "expense", "income", "transfer"}) =>
        /\ feed.err = "DRFValidationError"
        /\ feed.queries = {}
        /\ feed.result = <<>>

\* the call was refused although the caller has a record in the period
C20_Witness ==
    /\ feed.op = "get_transaction_list"
    /\ feed.transaction_type = "bogus"
    /\ feed.err = "DRFValidationError"
    /\ \E t \in RecordTypes : Matching(t) # {}

\* ------------------------------------------------- updates without effect
\* the category of a call is one the caller owns, or none
CategoryGiven(call) == call.category # NULL => category_found(call.category, call.user)

\* C21: an update_user_expense or update_income of a record of the caller
\* that changes neither the wallet nor the amount of the record returns and
\* leaves every persisted wallet balance as it was, also when the record has
\* no wallet.
C21_UpdateWithoutLedgerChange ==
    [][/\ (/\ last'.op = "update_user_expense"
           /\ expense_found(DB, last'.uid, last'.user)
           /\ CategoryGiven(last')
           /\ last'.amount \in {None, Some(0), Some(expense[last'.uid].amount)}
           /\ last'.wallet \in {NULL, expense[last'.uid].wallet}) =>
             /\ last'.err = OK
             /\ wallet' = wallet
       /\ (/\ last'.op = "update_income"
           /\ income_found(DB, last'.uid, last'.user)
           /\ CategoryGiven(last')
           /\ last'.amount = Some(income[last'.uid].amount)) =>
             /\ last'.err = OK
             /\ wallet' = wallet]_vars

\* C22: update_transfer without an amount, on a transfer of the caller,
\* returns and changes at most the description of that transfer: its amount,
\* its wallets, every other transfer and every persisted wallet balance stay
\* as they were.
C22_DescriptionOnlyUpdate ==
    [][(/\ last'.op = "update_transfer"
        /\ last'.amount = None
        /\ transfer_found(DB, last'.uid, last'.user)) =>
          /\ last'.err = OK
          /\ wallet' = wallet
          /\ DOMAIN transfer' = DOMAIN transfer
          /\ \A k \in DOMAIN transfer :
                transfer'[k] = [transfer[k] EXCEPT !.description =
                                  IF k = last'.uid THEN transfer'[k].description ELSE @]]_vars

\* ------------------------------------------------------ missing records
\* the record a call names exists and belongs to the caller
RecordFound(call) ==
    /\ call.uid \in DOMAIN DB[OpKind[call.op]]
    /\ DB[OpKind[call.op]][call.uid].user = call.user

\* what a service raises for a record it did not find
NotFoundErrors == {"DRFValidationError", "DjangoValidationError"}

\* C23: an update or delete of an expense, income or transfer that names a
\* uid the caller has no record for (never created, deleted, or another
\* user's) ends in a not-found validation error and changes no wallet balance
\* and no record; so a second delete of a record reverses nothing.
C23_MissingRecordIsNotFound ==
    [][(/\ last'.op \in UpdateOps \cup DeleteOps
        /\ ~RecordFound(last')) =>
          /\ last'.err \in NotFoundErrors
          /\ DB' = DB]_vars

\* ------------------------------------------------ Wallet.transfer_balance
\* Wallet.transfer_balance under its transaction.atomic.  A save raises when the
\* balance does not fit DecimalField(max_digits=10, decimal_places=2); the
\* withdraw is written before the deposit is tried.
transfer_balance(db, self, to_wallet, amount) ==
    LET w == Wallet_withdraw(db, self, amount)
        d == Wallet_deposit(w.db, to_wallet, amount)
        r == IF ~DecimalValid(w.self.balance) THEN Result(db, "InvalidOperation")
             ELSE IF ~DecimalValid(d.self.balance) THEN Result(w.db, "InvalidOperation")
             ELSE Result(d.db, OK)
    IN [db |-> Atomic(db, r), err |-> r.err]

\* source.transfer_balance(destination, amount) on two freshly fetched wallets
TransferBalance ==
    \E source \in DOMAIN wallet, destination \in DOMAIN wallet, amount \in SignedAmounts :
        LET r == transfer_balance(DB, WalletObj(DB, source), WalletObj(DB, destination), amount)
        IN /\ budget > 0
           /\ source # destination
           /\ wallet' = r.db.wallet
           /\ last' = [NoCall EXCEPT !.op = "transfer_balance", !.err = r.err,
                                     !.wallet = source, !.wallet2 = destination,
                                     !.amount = Some(amount)]
           /\ budget' = budget - 1
           /\ UNCHANGED <<expense, income, transfer, seq, round, admin, held, flow, feed, request>>

InitTransferBalance ==
    /\ InitTables
    /\ budget = MaxMoves

NextTransferBalance == TransferBalance

SpecTransferBalance == InitTransferBalance /\ [][NextTransferBalance]_vars

\* C24: a transfer_balance call either moves the amount from the source to
\* the destination or, when it raises, leaves every persisted balance as it
\* was, also when the deposit fails after the withdraw was written: no step
\* changes only one of the two balances.
C24_TransferBalanceIsAtomic ==
    [][last'.op = "transfer_balance" =>
         IF last'.err = OK
         THEN wallet' = [wallet EXCEPT ![last'.wallet] = @ - last'.amount[1],
                                       ![last'.wallet2] = @ + last'.amount[1]]
         ELSE wallet' = wallet]_vars

\* the deposit on w2 failed after the withdraw on w1 was written (100 less an
\* amount of nine digits still fits the column, 50 more does not), and w1
\* has the balance it had
C24_Witness ==
    /\ last.op = "transfer_balance" /\ last.err = "InvalidOperation"
    /\ last.wallet = "w1" /\ last.wallet2 = "w2"
    /\ DecimalValid(InitBalance["w1"] - last.amount[1])
    /\ ~DecimalValid(InitBalance["w2"] + last.amount[1])
    /\ budget = MaxMoves - 1
    /\ wallet = InitBalance

\* ------------------------------------------------- one call, any service
\* One call of a service, or of deposit or withdraw, on a database that is
\* empty or already holds an expense and a transfer of u1 and an income of
\* u2, with the wallets at their initial balances or all at zero.
StartBalances == {InitBalance, [w \in WalletIds |-> 0]}
SeedExpense == [user |-> "u1", wallet |-> "w1", amount |-> 20, category |-> NULL]
SeedIncome == [user |-> "u2", wallet |-> "w3", amount |-> 30, category |-> NULL]
SeedTransfer == [user |-> "u1", source_wallet |-> "w1", destination_wallet |-> "w2",
                 amount |-> 20, description |-> NULL]

InitCall ==
    /\ wallet \in StartBalances
    /\ \E seeded \in BOOLEAN :
        /\ expense = IF seeded THEN <<SeedExpense>> ELSE <<>>
        /\ income = IF seeded THEN <<SeedIncome>> ELSE <<>>
        /\ transfer = IF seeded THEN <<SeedTransfer>> ELSE <<>>
    /\ seq = [expense |-> Len(expense), income |-> Len(income), transfer |-> Len(transfer)]
    /\ last = NoCall
    /\ round = NoRound
    /\ admin = FALSE
    /\ held = [w \in {} |-> 0]
    /\ flow = NoFlow
    /\ feed = NoFeed
    /\ request = NoRequests
    /\ budget = MaxTries

NextCall ==
    \/ Next
    \/ Deposit
    \/ Withdraw

SpecCall == InitCall /\ [][NextCall]_vars

\* the rows of a table that do not belong to user are all still there and
\* as they were, and every row that is new belongs to user
OthersUntouched(before, after, user) ==
    /\ \A k \in DOMAIN before :
          before[k].user # user => k \in DOMAIN after /\ after[k] = before[k]
    /\ \A k \in DOMAIN after \ DOMAIN before : after[k].user = user

\* C25: a service call made for a user changes or deletes no wallet of
\* another user and creates, changes or deletes no expense, income or transfer
\* of another user; create_user_expense, update_user_expense and
\* create_transfer given a wallet uid of another user end in a validation
\* error.
C25_OtherUsersUntouched ==
    [][last'.op \in DOMAIN OpKind =>
         /\ \A w \in DOMAIN wallet :
               WalletOwner[w] # last'.user => w \in DOMAIN wallet' /\ wallet'[w] = wallet[w]
         /\ OthersUntouched(expense, expense', last'.user)
         /\ OthersUntouched(income, income', last'.user)
         /\ OthersUntouched(transfer, transfer', last'.user)
         /\ (/\ last'.op \in {"create_user_expense", "update_user_expense", "create_transfer"}
             /\ \E w \in {last'.wallet, last'.wallet2} :
                   w # NULL /\ WalletOwner[w] # last'.user) =>
               last'.err \in NotFoundErrors]_vars

\* u1 asked for a transfer of 20 from its wallet w1 to w3, the wallet of u2,
\* with every other argument valid; the call was rejected
C25_Witness ==
    /\ last.op = "create_transfer" /\ last.user = "u1"
    /\ last.wallet = "w1" /\ last.wallet2 = "w3" /\ last.amount = Some(20)
    /\ last.err = "DRFValidationError"
    /\ wallet = InitBalance
    /\ Len(transfer) = 1

\* ------------------------------------------------- concurrent requests
\* Requests of u1 that run create_transfer at the same time, each in its own
\* transaction.  A request first checks the amount and loads its two wallets;
\* later it moves the amount on the instances it loaded, saves the record and
\* commits.  No row is locked and no instance is refreshed in between, and a
\* save writes the balance the instance holds.
RaceAmounts == {0, 20, 30}

\* the instance a request works on, fetched again under a row lock
Fetched_ForUpdate(db, instance) == WalletObj(db, instance.uid)

\* the instance a request works on: the one it loaded
Fetched(db, instance) == instance

BeginTransfer ==
    \E p \in Requests, amount \in RaceAmounts, description \in Opt({"rent"}),
       source_wallet_uid \in WalletIds, destination_wallet_uid \in WalletIds :
        LET user == "u1"
            source_wallet == get_wallet_from_uid_and_user(DB, source_wallet_uid, user)
            destination_wallet == get_wallet_from_uid_and_user(DB, destination_wallet_uid, user)
            err == IF amount_not_positive(amount) THEN "DRFValidationError"
                   ELSE IF source_wallet.uid = NULL THEN "DRFValidationError"
                   ELSE IF destination_wallet.uid = NULL THEN "DRFValidationError"
                   ELSE OK
        IN /\ request[p].pc = "idle"
           /\ request' = [request EXCEPT ![p] =
                  [pc |-> IF err = OK THEN "loaded" ELSE "done", user |-> user,
                   amount |-> amount, description |-> description,
                   source_wallet |-> IF err = OK THEN source_wallet ELSE NoneObj,
                   destination_wallet |-> IF err = OK THEN destination_wallet ELSE NoneObj,
                   err |-> err]]
           /\ UNCHANGED <<wallet, expense, income, transfer, seq, last, round, admin,
                          budget, held, flow, feed>>

FinishTransfer ==
    \E p \in Requests :
        LET q == request[p]
            r == create_transfer_loaded(DB, Fetched(DB, q.source_wallet),
                                        Fetched(DB, q.destination_wallet),
                                        q.amount, q.description, q.user)
            db2 == Atomic(DB, r)
        IN /\ q.pc = "loaded"
           /\ wallet' = db2.wallet
           /\ transfer' = db2.transfer
           /\ seq' = db2.seq
           /\ request' = [request EXCEPT ![p].pc = "done", ![p].err = r.err]
           /\ UNCHANGED <<expense, income, last, round, admin, budget, held, flow, feed>>

InitRace ==
    /\ InitTables
    /\ budget = 0

NextRace ==
    \/ BeginTransfer
    \/ FinishTransfer

SpecRace == InitRace /\ [][NextRace]_vars

\* C26: a request that finishes its create_transfer writes the balances it
\* computed from the instances it loaded (loaded source balance minus the
\* amount, loaded destination balance plus the amount), whatever other
\* requests have written to the two wallets since, and saves its record; so
\* of two requests that loaded the same wallet before either wrote, the one
\* that finishes last overwrites the change of the other.
C26_RequestWritesWhatItLoaded ==
    [][\A p \in Requests :
         (request[p].pc = "loaded" /\ request'[p].pc = "done" /\ request'[p].err = OK) =>
            /\ wallet' = [wallet EXCEPT
                  ![request[p].source_wallet.uid] =
                      request[p].source_wallet.balance - request[p].amount,
                  ![request[p].destination_wallet.uid] =
                      request[p].destination_wallet.balance + request[p].amount]
            /\ Len(transfer') = Len(transfer) + 1
            /\ transfer'[Len(transfer')].amount = request[p].amount]_vars

\* two requests moved 20 and 30 from w1 to w2 and both records are saved, but
\* w1 and w2 show only one of the two transfers
C26_Witness ==
    /\ \A p \in {1, 2} :
          /\ request[p].pc = "done" /\ request[p].err = OK
          /\ request[p].source_wallet.uid = "w1"
          /\ request[p].destination_wallet.uid = "w2"
    /\ request[1].amount = 20 /\ request[2].amount = 30
    /\ Len(transfer) = 2
    /\ SumAmounts(transfer, DOMAIN transfer) = 50
    /\ wallet["w1"] = InitBalance["w1"] - 30
    /\ wallet["w2"] = InitBalance["w2"] + 30

\* ------------------------------------------- transfers that lost a wallet
\* exactly one of the two wallet references of the row is null
OneSideMissing(row) == (row.source_wallet = NULL) # (row.destination_wallet = NULL)

\* the balances after the surviving wallet of the row was moved as a transfer
\* of amount from source to destination moves it
Applied(balances, row, amount) ==
    IF row.source_wallet # NULL
    THEN [balances EXCEPT ![row.source_wallet] = @ - amount]
    ELSE [balances EXCEPT ![row.destination_wallet] = @ + amount]

\* C27: on a transfer of the caller that has lost exactly one of its two
\* wallets, delete_transfer returns with the balance of the surviving wallet
\* reversed by the transfer's amount, and update_transfer with a valid new
\* amount returns with the surviving wallet reversed by the old amount and
\* moved by the new one.
C27_SurvivingSideAdjusted ==
    [][(/\ last'.op \in {"delete_transfer", "update_transfer"}
        /\ RecordFound(last')
        /\ OneSideMissing(transfer[last'.uid])
        /\ last'.op = "update_transfer" =>
              last'.amount # None /\ last'.amount[1] > 0 /\ DecimalValid(last'.amount[1])) =>
          /\ last'.err = OK
          /\ wallet' = IF last'.op = "delete_transfer"
                       THEN Applied(wallet, transfer[last'.uid], -transfer[last'.uid].amount)
                       ELSE Applied(wallet, transfer[last'.uid],
                                    last'.amount[1] - transfer[last'.uid].amount)]_vars

\* ------------------------------------------------------------ overdraft
\* the call takes more from its wallet than the wallet holds
Overdraws(call) == call.amount[1] > wallet[call.wallet]

\* C28: a withdraw, a create_user_expense and a create_transfer that are
\* valid in everything else and take more than the wallet's balance return,
\* and leave the wallet with a negative persisted balance.
C28_NoInsufficientFundsCheck ==
    [][/\ (/\ last'.op = "withdraw"
           /\ last'.wallet \in DOMAIN held => held[last'.wallet] = wallet[last'.wallet]
           /\ Overdraws(last')) =>
             /\ wallet'[last'.wallet] = wallet[last'.wallet] - last'.amount[1]
             /\ wallet'[last'.wallet] < 0
       /\ (/\ last'.op = "create_user_expense"
           /\ ValidFields(last')
           /\ Overdraws(last')) =>
             /\ last'.err = OK
             /\ wallet'[last'.wallet] < 0
       /\ (/\ last'.op = "create_transfer"
           /\ ValidFields(last')
           /\ last'.wallet2 \in DOMAIN wallet
           /\ WalletOwner[last'.wallet2] = last'.user
           /\ last'.wallet2 # last'.wallet
           /\ Overdraws(last')) =>
             /\ last'.err = OK
             /\ wallet'[last'.wallet] = wallet[last'.wallet] - last'.amount[1]
             /\ wallet'[last'.wallet] < 0]_vars

\* a transfer of 20 out of a wallet that held nothing
C28_Witness ==
    /\ last.op = "create_transfer" /\ last.err = OK
    /\ last.wallet = "w1" /\ last.wallet2 = "w2" /\ last.amount = Some(20)
    /\ wallet["w1"] = -20
    /\ wallet["w2"] = 20
    /\ budget = MaxTries - 1

\* ---------------------------------------- get_transaction_list, again
\* the place of a record type in the order of the three loops
LoopOrder == [expense |-> 1, income |-> 2, transfer |-> 3]

\* C29: in every returned group the expense entries stand before the income
\* entries, and the income entries before the transfer entries.
C29_ExpenseIncomeTransferOrder ==
    ListReturned =>
        \A i \in DOMAIN feed.result :
            LET entries == feed.result[i].transactions
            IN \A j, k \in DOMAIN entries :
                 j < k => LoopOrder[entries[j].transaction_type]
                            <= LoopOrder[entries[k].transaction_type]

\* a group of one date that holds an entry of each type, in that order
C29_Witness ==
    /\ ListReturned /\ feed.month = None
    /\ \E i \in DOMAIN feed.result :
          /\ Len(feed.result[i].transactions) = 3
          /\ feed.result[i].transactions[1].transaction_type = "expense"
          /\ feed.result[i].transactions[2].transaction_type = "income"
          /\ feed.result[i].transactions[3].transaction_type = "transfer"

\* Two calls with the same arguments, on tables that hold records of u1 on
\* two days of one month, and no write between the calls.
RepeatRecords == {record \in Records : record.user = "u1" /\ record.date \in {<<2024, 5, 1>>, <<2024, 5, 2>>}}

GetTransactionListAgain ==
    /\ feed.op = "get_transaction_list"
    /\ \E r \in get_transaction_list(DB, feed.year, feed.month, feed.user, feed.transaction_type) :
        /\ feed' = [op |-> "get_transaction_list again", user |-> feed.user, year |-> feed.year,
                    month |-> feed.month, transaction_type |-> feed.transaction_type,
                    err |-> r.err, queries |-> r.queries, result |-> r.result,
                    first |-> [err |-> feed.err, result |-> feed.result]]
        /\ UNCHANGED <<wallet, expense, income, transfer, seq, last, round, admin,
                       budget, held, flow, request>>

InitRepeat ==
    \E records \in SubsetsUpTo(RepeatRecords, MaxRecords) :
        /\ wallet = InitBalance
        /\ expense = TableOf(records, "expense")
        /\ income = TableOf(records, "income")
        /\ transfer = TableOf(records, "transfer")
        /\ seq = [expense |-> Len(expense), income |-> Len(income), transfer |-> Len(transfer)]
        /\ last = NoCall
        /\ round = NoRound
        /\ admin = FALSE
        /\ held = [w \in {} |-> 0]
        /\ flow = NoFlow
        /\ feed = NoFeed
        /\ request = NoRequests
        /\ budget = 0

NextRepeat ==
    \/ GetTransactionList
    \/ GetTransactionListAgain

SpecRepeat == InitRepeat /\ [][NextRepeat]_vars

\* a step of get_transaction_list, first or repeated
Listing == feed' # feed

Repeated == feed'.op = "get_transaction_list again"

\* two results with the same groups (date, amount, entries) and, in each
\* group, the same types at the same places: they differ at most in the order
\* of entries of one type within a group
SameUpToTies(a, b) ==
    /\ Len(a) = Len(b)
    /\ \A i \in DOMAIN a :
          /\ a[i].date = b[i].date
          /\ a[i].amount = b[i].amount
          /\ Len(a[i].transactions) = Len(b[i].transactions)
          /\ {a[i].transactions[j] : j \in DOMAIN a[i].transactions}
               = {b[i].transactions[j] : j \in DOMAIN b[i].transactions}
          /\ \A j \in DOMAIN a[i].transactions :
                a[i].transactions[j].transaction_type = b[i].transactions[j].transaction_type

====
